---- MODULE Spec2Model ----
(***************************************************************************)
(* A model of boost::unions::tagged_union<A, B, A> (tagged_union.hpp) and  *)
(* of the helpers it is built from.                                        *)
(*                                                                         *)
(* A container is a slot i with the three data members of the class:       *)
(*   what_[i]   the storage buffer, a sequence of BufSize bytes            *)
(*   which_[i]  the type tag (NullType when no object is stored)           *)
(*   self_[i]   TRUE when the tag is a pointer-to-self type                *)
(* alive[i] says whether a tagged_union object currently lives in slot i.  *)
(* obj[i] is a ghost: the variant object whose lifetime has begun in the   *)
(* buffer of slot i and has not ended, with its object representation.     *)
(* last describes the operation that produced the current state.           *)
(* su is one super_union object: its type list, its storage and the last   *)
(* access made to it.                                                      *)
(*                                                                         *)
(* The variant types are A (one byte) and B (two bytes); a pointer takes   *)
(* two bytes.  Their special member functions are user code: each of them  *)
(* may throw, and a constructor or assignment that throws may already have *)
(* written a prefix of the bytes it was going to write.                    *)
(***************************************************************************)
EXTENDS Integers, Sequences, FiniteSets, TLC

VARIABLES alive, what_, which_, self_, obj, terminated, last, su

vars == <<alive, what_, which_, self_, obj, terminated, last, su>>

\* the variables of the tagged_union containers
tagged == <<alive, what_, which_, self_, obj, terminated, last>>

\* ---------------------------------------------------------------- bounds
MaxVal == 2

\* the longest type list of a super_union
MaxTypes == 3

\* an operation involves at most two containers, *this and that
Objs == {1, 2}
\* the addresses of the containers; 0 is the null pointer
PtrVals == Objs

\* ------------------------------------------------- the instantiation used
Types == <<"A", "B", "A">>
NullType == "null"
\* the result of naming a type that does not exist
Undefined == "undefined"
SelfTypes == {"T *", "T const *", "T volatile *", "T const volatile *"}
PointerTypes ==
    <<"void *", "void const *", "void volatile *", "void const volatile *">>

sizeof(T) == IF T = "A" THEN 1 ELSE 2

\* values of a variant type, as object representations
ValsOf(T) == {[n \in 1..sizeof(T) |-> v] : v \in 1..MaxVal}

\* mpl::contains_v<T, Types...>
RECURSIVE contains_v(_, _)
contains_v(T, ts) ==
    IF ts = <<>> THEN FALSE
    ELSE IF T = Head(ts) THEN TRUE
    ELSE contains_v(T, Tail(ts))

\* the largest type with a tie going to the type listed last
largest_type_ties_to_last(ts) ==
    ts[CHOOSE n \in 1..Len(ts) :
          /\ \A m \in 1..Len(ts) : sizeof(ts[m]) <= sizeof(ts[n])
          /\ \A m \in (n + 1)..Len(ts) : sizeof(ts[m]) < sizeof(ts[n])]

\* largest_type<First, Other...>: the first type with the largest sizeof
RECURSIVE largest_type(_)
largest_type(ts) ==
    IF Len(ts) = 1 THEN ts[1]
    ELSE IF Len(ts) = 2
         THEN (IF sizeof(ts[1]) < sizeof(ts[2]) THEN ts[2] ELSE ts[1])
         ELSE largest_type(<<ts[1], largest_type(Tail(ts))>>)

\* sizeof(what_)
BufSize == sizeof(largest_type(Types \o PointerTypes))

\* what_{}: value-initialised storage
ZeroBuf == [n \in 1..BufSize |-> 0]

\* the object representation of a pointer value
PtrBytes(p) == [n \in 1..sizeof("void *") |-> p]

\* the first k bytes of dst replaced by the first k bytes of src
Overwrite(dst, src, k) ==
    [n \in 1..Len(dst) |-> IF n <= k THEN src[n] ELSE dst[n]]

\* std::memcpy( dst, src, n ), std::memmove( dst, src, n )
memcpy(dst, src, n) == Overwrite(dst, src, n)

\* detail::memswap: swaps the first s bytes of a and b, one byte at a time
RECURSIVE memswap_from(_, _, _, _)
memswap_from(a, b, n, s) ==
    IF s = 0 THEN <<a, b>>
    ELSE memswap_from([a EXCEPT ![n] = b[n]], [b EXCEPT ![n] = a[n]],
                      n + 1, s - 1)

\* a memswap that copies b over a and leaves b as it was
memswap_copying(a, b, s) == <<Overwrite(a, b, s), b>>

memswap(a, b, s) == memswap_from(a, b, 1, s)

\* detail::visit_via_ref<Types...>: the position of the first listed type
\* equal to the tag, 0 when no listed type is (the visitor is not called)
RECURSIVE visit_from(_, _, _)
visit_from(ts, type, n) ==
    IF ts = <<>> THEN 0
    ELSE IF type = Head(ts) THEN n
    ELSE visit_from(Tail(ts), type, n + 1)

visit_via_ref(ts, type) == visit_from(ts, type, 1)

visit_via_rref(ts, type) == visit_from(ts, type, 1)

visit_via_ptr(ts, type) == visit_from(ts, type, 1)

\* the calls of apply that a dispatch over ts makes for the tag type: the
\* positions of the listed types the visitor is applied to, in call order
RECURSIVE visit_calls_from(_, _, _)
visit_calls_from(ts, type, n) ==
    IF ts = <<>> THEN <<>>
    ELSE IF type = Head(ts) THEN <<n>>
    ELSE visit_calls_from(Tail(ts), type, n + 1)

visit_via_ref_calls(ts, type) == visit_calls_from(ts, type, 1)

visit_via_rref_calls(ts, type) == visit_calls_from(ts, type, 1)

\* a dispatch that goes on to the rest of the list after a match
visit_via_ptr_calls_each_match(ts, type) ==
    SelectSeq([n \in 1..Len(ts) |-> n], LAMBDA n : ts[n] = type)

visit_via_ptr_calls(ts, type) == visit_calls_from(ts, type, 1)

\* ------------------------------------------------------------ ghost state
NoObj == [type |-> NullType, bytes |-> <<>>]

LiveObj(T, buf) == [type |-> T, bytes |-> SubSeq(buf, 1, sizeof(T))]

\* buf holds a live object of type T, given the ghost o of its slot
HoldsLive(buf, o, T) ==
    /\ o.type = T
    /\ SubSeq(buf, 1, sizeof(T)) = o.bytes

\* the ghost o once the buffer of its slot holds buf: an object whose bytes
\* were overwritten from outside is gone without having been destroyed
Settle(o, buf) ==
    IF o # NoObj /\ HoldsLive(buf, o, o.type) THEN o ELSE NoObj

\* ------------------------------------------------------- choices of a run
\* thr: which user-written member function throws during the operation;
\* k: how many bytes a throwing constructor or assignment had written;
\* term: whether an exception leaving ~tagged_union ends the program
\*       (the destructor is implicitly noexcept) or propagates to the caller;
\* elide: whether the build drops the zeroing of what_ that the following
\*       memcpy overwrites (it matters only when source and target alias)
Throwers == {"none", "ctor", "dtor", "asg"}

Choices ==
    {c \in [thr : Throwers, k : 0..BufSize, term : BOOLEAN, elide : BOOLEAN] :
        /\ c.thr \notin {"ctor", "asg"} => c.k = 0
        /\ c.thr # "dtor" => ~c.term
        /\ c.thr # "none" => ~c.elide}

Min(a, b) == IF a < b THEN a ELSE b

\* some function called during the operation threw
Threw(events) ==
    \E n \in 1..Len(events) :
        events[n] \in {"ctor!", "dtor!", "asg!", "move_asg!"}

\* the choice ch is the one the operation took: the function it names as
\* throwing was called, and the operation met the aliasing it speaks of
Taken(ch, events, aliased) ==
    /\ ch.thr # "none" => Threw(events)
    /\ ch.elide => aliased

Report(op, tgt, src, path, result, events, bad, leak) ==
    [op |-> op, tgt |-> tgt, src |-> src, path |-> path, result |-> result,
     events |-> events, bad |-> bad, leak |-> leak]

\* ------------------------------------------------- the visitors' functors
\* detail::destroyer: about_to_die->~T() on the object at buf
destroyer(buf, o, T, ch) ==
    [bad |-> ~HoldsLive(buf, o, T),
     obj |-> IF HoldsLive(buf, o, T) THEN NoObj ELSE o,
     threw |-> ch.thr = "dtor",
     events |-> IF ch.thr = "dtor" THEN <<"dtor!">> ELSE <<"dtor">>]

\* detail::copy_constructor: ::new (destination) T{ source }
copy_constructor(source, destination, T, ch) ==
    [buf |-> IF ch.thr = "ctor"
             THEN Overwrite(destination, source, Min(ch.k, sizeof(T)))
             ELSE Overwrite(destination, source, sizeof(T)),
     threw |-> ch.thr = "ctor",
     events |-> IF ch.thr = "ctor" THEN <<"ctor!">> ELSE <<"ctor">>]

\* a move_constructor that constructs nothing
move_constructor_skipped(source, destination, T, ch) ==
    [buf |-> destination,
     threw |-> ch.thr = "ctor",
     events |-> IF ch.thr = "ctor" THEN <<"ctor!">> ELSE <<"ctor">>]

\* detail::move_constructor: ::new (destination) T{ std::move(source) }
move_constructor(source, destination, T, ch) ==
    [buf |-> IF ch.thr = "ctor"
             THEN Overwrite(destination, source, Min(ch.k, sizeof(T)))
             ELSE Overwrite(destination, source, sizeof(T)),
     threw |-> ch.thr = "ctor",
     events |-> IF ch.thr = "ctor" THEN <<"ctor!">> ELSE <<"ctor">>]

\* detail::copy_assigner: *static_cast<T *>(destination) = source
copy_assigner(source, destination, T, ch) ==
    [buf |-> IF ch.thr = "asg"
             THEN Overwrite(destination, source, Min(ch.k, sizeof(T)))
             ELSE Overwrite(destination, source, sizeof(T)),
     threw |-> ch.thr = "asg",
     events |-> IF ch.thr = "asg" THEN <<"asg!">> ELSE <<"asg">>]

\* detail::move_assigner: *static_cast<T *>(destination) = std::move(source)
move_assigner(source, destination, T, ch) ==
    [buf |-> IF ch.thr = "asg"
             THEN Overwrite(destination, source, Min(ch.k, sizeof(T)))
             ELSE Overwrite(destination, source, sizeof(T)),
     threw |-> ch.thr = "asg",
     events |-> IF ch.thr = "asg" THEN <<"move_asg!">> ELSE <<"move_asg">>]

\* the ghost of a slot after an assignment in place changed buf to nbuf
Reassigned(buf, o, T, nbuf) ==
    IF HoldsLive(buf, o, T) THEN LiveObj(T, nbuf) ELSE o

\* ------------------------------------------------------------ super_union
\* the type lists a super_union is instantiated with
RECURSIVE ListsOf(_)
ListsOf(n) ==
    IF n = 0 THEN {<<>>}
    ELSE LET shorter == ListsOf(n - 1)
         IN  shorter \cup {Append(ts, T) : ts \in shorter, T \in {"A", "B"}}

SuTypeLists == ListsOf(MaxTypes)

\* no member: what a request that does not compile denotes
NoMember == -1

\* a variant_types() that leaves out the directly contained member
su_variant_types_of_rest(ts) == IF ts = <<>> THEN <<>> ELSE Tail(ts)

\* super_union<>::variant_types() and
\* super_union<Head, Tail...>::variant_types(): { typeid(Head), typeid(Tail)... }
su_variant_types(ts) ==
    IF ts = <<>> THEN <<>>
    ELSE [n \in 1..(1 + Len(Tail(ts))) |->
             IF n = 1 THEN Head(ts) ELSE Tail(ts)[n - 1]]

\* variant_element<Index, super_union<Types...>>::type: defined for a
\* non-empty list only, by recursion on Index
RECURSIVE su_variant_element(_, _)
su_variant_element(Index, ts) ==
    IF ts = <<>> THEN Undefined
    ELSE IF Index = 0 THEN Head(ts)
    ELSE su_variant_element(Index - 1, Tail(ts))

\* variant_size<super_union<Types...>>::value
su_variant_size(ts) == Len(ts)

\* detail::gett_impl<T>( su, is_same<T, Head> ) at nesting depth depth: the
\* true_type overload gives su.data; the false_type overload needs a second
\* type in the list and goes on in su.rest; otherwise no overload matches
RECURSIVE gett_impl(_, _, _, _)
gett_impl(T, ts, same, depth) ==
    IF same THEN depth
    ELSE IF Len(ts) >= 2
         THEN gett_impl(T, Tail(ts), T = ts[2], depth + 1)
         ELSE NoMember

\* detail::get_impl<Index>( su, bool ) at nesting depth depth: the return
\* type must exist; the false overload gives su.data, the true overload
\* goes on in su.rest with Index - 1
RECURSIVE get_impl(_, _, _, _)
get_impl(Index, ts, more, depth) ==
    IF su_variant_element(Index, ts) = Undefined THEN NoMember
    ELSE IF ~more THEN depth
    ELSE get_impl(Index - 1, Tail(ts), Index > 1, depth + 1)

\* a gett that takes the last member when no member has the type
su_gett_lenient(T, ts) ==
    IF ts = <<>> THEN NoMember
    ELSE IF gett_impl(T, ts, T = Head(ts), 0) = NoMember THEN Len(ts) - 1
    ELSE gett_impl(T, ts, T = Head(ts), 0)

\* gett<T>( super_union<Head, Tail...> & ): the member it denotes, counted
\* from 0, or NoMember when the call does not compile
su_gett(T, ts) ==
    IF ts = <<>> THEN NoMember ELSE gett_impl(T, ts, T = Head(ts), 0)

\* gett<T>( super_union<Head, Tail...> const & )
su_gett_const(T, ts) ==
    IF ts = <<>> THEN NoMember ELSE gett_impl(T, ts, T = Head(ts), 0)

\* gett<T>( super_union<Head, Tail...> && )
su_gett_rvalue(T, ts) ==
    IF ts = <<>> THEN NoMember ELSE gett_impl(T, ts, T = Head(ts), 0)

\* a get that starts counting in su.rest
su_get_shifted(Index, ts) ==
    IF ts = <<>> THEN NoMember ELSE get_impl(Index, Tail(ts), Index # 0, 1)

\* get<Index>( super_union<Types...> & )
su_get(Index, ts) == get_impl(Index, ts, Index # 0, 0)

\* get<Index>( super_union<Types...> const & )
su_get_const(Index, ts) == get_impl(Index, ts, Index # 0, 0)

\* get<Index>( super_union<Types...> && )
su_get_rvalue(Index, ts) == get_impl(Index, ts, Index # 0, 0)

\* the forms of access and the requests that can be written down
Forms == {"lvalue", "const", "rvalue"}

RequestTypes == {"A", "B", "int"}

Requests(ts) ==
    {[by |-> "type", req |-> T] : T \in RequestTypes}
       \cup {[by |-> "index", req |-> I] : I \in 0..(Len(ts) + 1)}

\* the member a request denotes in a given form
Denotes(form, r, ts) ==
    IF r.by = "type"
    THEN CASE form = "lvalue" -> su_gett(r.req, ts)
           [] form = "const" -> su_gett_const(r.req, ts)
           [] form = "rvalue" -> su_gett_rvalue(r.req, ts)
    ELSE CASE form = "lvalue" -> su_get(r.req, ts)
           [] form = "const" -> su_get_const(r.req, ts)
           [] form = "rvalue" -> su_get_rvalue(r.req, ts)

\* the type of the member a request denotes
MemberType(form, r, ts) ==
    IF Denotes(form, r, ts) = NoMember THEN Undefined
    ELSE ts[Denotes(form, r, ts) + 1]

\* the storage of a super_union: all members start at its first byte
SuSize(ts) == IF ts = <<>> THEN 0 ELSE sizeof(largest_type(ts))

\* a super_union<ts> before any member has been written
SuObject(ts) ==
    [types |-> ts, mem |-> [n \in 1..SuSize(ts) |-> 0], active |-> NoMember,
     written |-> <<>>,
     last |-> [op |-> "none", form |-> "none", by |-> "none", req |-> 0,
               member |-> NoMember, value |-> <<>>]]

SuAccess(op, form, r, member, value) ==
    [op |-> op, form |-> form, by |-> r.by, req |-> r.req, member |-> member,
     value |-> value]

\* a write through a non-const access: the member becomes the active one
SuWrite(form, r, v) ==
    /\ form \in {"lvalue", "rvalue"}
    /\ r \in Requests(su.types)
    /\ LET m == Denotes(form, r, su.types)
       IN  /\ m # NoMember
           /\ v \in ValsOf(su.types[m + 1])
           /\ su' = [su EXCEPT
                       !.mem = Overwrite(su.mem, v, sizeof(su.types[m + 1])),
                       !.active = m,
                       !.written = v,
                       !.last = SuAccess("write", form, r, m, v)]
    /\ UNCHANGED tagged

\* a read through any access: the value of the active member, or, through a
\* member that is not the active one, any value of that member's type
SuRead(form, r, v) ==
    /\ form \in Forms
    /\ r \in Requests(su.types)
    /\ LET m == Denotes(form, r, su.types)
       IN  /\ m # NoMember
           /\ v \in ValsOf(su.types[m + 1])
           /\ m = su.active => v = SubSeq(su.mem, 1, sizeof(su.types[m + 1]))
           /\ su' = [su EXCEPT !.last = SuAccess("read", form, r, m, v)]
    /\ UNCHANGED tagged

\* an access that does not compile: no member is reached
SuReject(form, r) ==
    /\ form \in Forms
    /\ r \in Requests(su.types)
    /\ Denotes(form, r, su.types) = NoMember
    /\ su' = [su EXCEPT !.last = SuAccess("rejected", form, r, NoMember, <<>>)]
    /\ UNCHANGED tagged

\* a call of variant_types()
SuVariantTypes ==
    /\ su' = [su EXCEPT
                !.last = [op |-> "variant_types", form |-> "none",
                          by |-> "none", req |-> 0, member |-> NoMember,
                          value |-> su_variant_types(su.types)]]
    /\ UNCHANGED tagged

\* ------------------------------------------------------------------- Init
\* no container has been constructed
NoContainers ==
    /\ alive = [i \in Objs |-> FALSE]
    /\ what_ = [i \in Objs |-> ZeroBuf]
    /\ which_ = [i \in Objs |-> NullType]
    /\ self_ = [i \in Objs |-> FALSE]
    /\ obj = [i \in Objs |-> NoObj]
    /\ terminated = FALSE
    /\ last = Report("init", 0, 0, "none", "ok", <<>>, FALSE, FALSE)

SuInit ==
    /\ NoContainers
    /\ su \in {SuObject(ts) : ts \in SuTypeLists}

SuNext ==
    \/ \E form \in Forms, r \in Requests(su.types) :
          \E v \in ValsOf(MemberType(form, r, su.types)) : SuWrite(form, r, v)
    \/ \E form \in Forms, r \in Requests(su.types) :
          \E v \in ValsOf(MemberType(form, r, su.types)) : SuRead(form, r, v)
    \/ \E form \in Forms, r \in Requests(su.types) : SuReject(form, r)
    \/ SuVariantTypes

SuSpec == SuInit /\ [][SuNext]_vars

Init ==
    /\ su = SuObject(<<>>)
    /\ alive = [i \in Objs |-> FALSE]
    /\ what_ = [i \in Objs |-> ZeroBuf]
    /\ which_ = [i \in Objs |-> NullType]
    /\ self_ = [i \in Objs |-> FALSE]
    /\ obj = [i \in Objs |-> NoObj]
    /\ terminated = FALSE
    /\ last = Report("init", 0, 0, "none", "ok", <<>>, FALSE, FALSE)

\* ------------------------------------------------------------ constructors
\* tagged_union() noexcept
DefaultConstruct(i) ==
    /\ ~terminated
    /\ UNCHANGED su
    /\ ~alive[i]
    /\ alive' = [alive EXCEPT ![i] = TRUE]
    /\ what_' = [what_ EXCEPT ![i] = ZeroBuf]
    /\ which_' = [which_ EXCEPT ![i] = NullType]
    /\ self_' = [self_ EXCEPT ![i] = FALSE]
    /\ obj' = [obj EXCEPT ![i] = NoObj]
    /\ last' = Report("default_construct", i, 0, "none", "ok", <<>>, FALSE, FALSE)
    /\ UNCHANGED terminated

\* the value constructors with self_{ true } among their initialisers
ValueConstructFlagged(i, T, v, mv, ch) ==
    /\ ~terminated
    /\ UNCHANGED su
    /\ ~alive[i]
    /\ contains_v(T, Types)
    /\ v \in ValsOf(T)
    /\ ch.thr \in {"none", "ctor"} /\ ~ch.elide
    /\ LET op == IF mv THEN "construct_move_value" ELSE "construct_copy_value"
           buf == Overwrite(ZeroBuf, v, sizeof(T))
       IN  IF ch.thr = "ctor"
           THEN /\ ch.k = 0
                /\ UNCHANGED <<alive, what_, which_, self_, obj>>
                /\ last' = Report(op, i, 0, T, "threw", <<"commit", "ctor!">>,
                                  FALSE, FALSE)
           ELSE /\ alive' = [alive EXCEPT ![i] = TRUE]
                /\ what_' = [what_ EXCEPT ![i] = buf]
                /\ which_' = [which_ EXCEPT ![i] = T]
                /\ self_' = [self_ EXCEPT ![i] = TRUE]
                /\ obj' = [obj EXCEPT ![i] = LiveObj(T, buf)]
                /\ last' = Report(op, i, 0, T, "ok", <<"commit", "ctor">>,
                                  FALSE, FALSE)
    /\ UNCHANGED terminated

\* the value constructors, were the object to stay with its initialised
\* members when the variant's constructor throws
ValueConstructKeepsPartial(i, T, v, mv, ch) ==
    /\ ~terminated
    /\ UNCHANGED su
    /\ ~alive[i]
    /\ contains_v(T, Types)
    /\ v \in ValsOf(T)
    /\ ch.thr \in {"none", "ctor"} /\ ~ch.elide
    /\ LET op == IF mv THEN "construct_move_value" ELSE "construct_copy_value"
           buf == Overwrite(ZeroBuf, v, sizeof(T))
       IN  IF ch.thr = "ctor"
           THEN /\ ch.k = 0
                /\ alive' = [alive EXCEPT ![i] = TRUE]
                /\ what_' = [what_ EXCEPT ![i] = ZeroBuf]
                /\ which_' = [which_ EXCEPT ![i] = T]
                /\ self_' = [self_ EXCEPT ![i] = FALSE]
                /\ obj' = [obj EXCEPT ![i] = NoObj]
                /\ last' = Report(op, i, 0, T, "threw", <<"commit", "ctor!">>,
                                  FALSE, FALSE)
           ELSE /\ alive' = [alive EXCEPT ![i] = TRUE]
                /\ what_' = [what_ EXCEPT ![i] = buf]
                /\ which_' = [which_ EXCEPT ![i] = T]
                /\ self_' = [self_ EXCEPT ![i] = FALSE]
                /\ obj' = [obj EXCEPT ![i] = LiveObj(T, buf)]
                /\ last' = Report(op, i, 0, T, "ok", <<"commit", "ctor">>,
                                  FALSE, FALSE)
    /\ UNCHANGED terminated

\* tagged_union( T const &that ) and tagged_union( T &&that ): the member
\* initialisers set the tag ("commit"), then the body constructs the value;
\* when that throws, the object under construction never comes to life
ValueConstruct(i, T, v, mv, ch) ==
    /\ ~terminated
    /\ UNCHANGED su
    /\ ~alive[i]
    /\ contains_v(T, Types)
    /\ v \in ValsOf(T)
    /\ ch.thr \in {"none", "ctor"} /\ ~ch.elide
    /\ LET op == IF mv THEN "construct_move_value" ELSE "construct_copy_value"
           buf == Overwrite(ZeroBuf, v, sizeof(T))
       IN  IF ch.thr = "ctor"
           THEN /\ ch.k = 0
                /\ UNCHANGED <<alive, what_, which_, self_, obj>>
                /\ last' = Report(op, i, 0, T, "threw", <<"commit", "ctor!">>,
                                  FALSE, FALSE)
           ELSE /\ alive' = [alive EXCEPT ![i] = TRUE]
                /\ what_' = [what_ EXCEPT ![i] = buf]
                /\ which_' = [which_ EXCEPT ![i] = T]
                /\ self_' = [self_ EXCEPT ![i] = FALSE]
                /\ obj' = [obj EXCEPT ![i] = LiveObj(T, buf)]
                /\ last' = Report(op, i, 0, T, "ok", <<"commit", "ctor">>,
                                  FALSE, FALSE)
    /\ UNCHANGED terminated

\* the pointer constructors with one tag for all four overloads
PointerConstructDecayed(i, P, p) ==
    /\ ~terminated
    /\ UNCHANGED su
    /\ ~alive[i]
    /\ P \in SelfTypes
    /\ p \in PtrVals
    /\ alive' = [alive EXCEPT ![i] = TRUE]
    /\ what_' = [what_ EXCEPT
                   ![i] = Overwrite(ZeroBuf, PtrBytes(p), sizeof("void *"))]
    /\ which_' = [which_ EXCEPT ![i] = "T *"]
    /\ self_' = [self_ EXCEPT ![i] = TRUE]
    /\ obj' = [obj EXCEPT ![i] = NoObj]
    /\ last' = Report("construct_pointer", i, 0, P, "ok", <<>>, FALSE, FALSE)
    /\ UNCHANGED terminated

\* tagged_union( T cv *that ) noexcept, the four overloads
PointerConstruct(i, P, p) ==
    /\ ~terminated
    /\ UNCHANGED su
    /\ ~alive[i]
    /\ P \in SelfTypes
    /\ p \in PtrVals
    /\ alive' = [alive EXCEPT ![i] = TRUE]
    /\ what_' = [what_ EXCEPT
                   ![i] = Overwrite(ZeroBuf, PtrBytes(p), sizeof("void *"))]
    /\ which_' = [which_ EXCEPT ![i] = P]
    /\ self_' = [self_ EXCEPT ![i] = TRUE]
    /\ obj' = [obj EXCEPT ![i] = NoObj]
    /\ last' = Report("construct_pointer", i, 0, P, "ok", <<>>, FALSE, FALSE)
    /\ UNCHANGED terminated

\* the copy constructor without the memcpy of a pointer-to-self
CopyConstructBodyNoMemcpy(src_what, src_which, src_self, ch) ==
    LET n == visit_via_ref(Types, src_which)
        cc == copy_constructor(src_what, ZeroBuf, Types[n], ch)
    IN  IF src_self
        THEN [what |-> ZeroBuf, which |-> src_which,
              self |-> src_self, obj |-> NoObj, threw |-> FALSE,
              events |-> <<>>]
        ELSE IF src_which # NullType /\ n # 0
        THEN [what |-> cc.buf, which |-> src_which, self |-> src_self,
              obj |-> IF cc.threw THEN NoObj ELSE LiveObj(Types[n], cc.buf),
              threw |-> cc.threw, events |-> cc.events]
        ELSE [what |-> ZeroBuf, which |-> src_which, self |-> src_self,
              obj |-> NoObj, threw |-> FALSE, events |-> <<>>]

\* the copy constructor's initialisers and body, on storage zeroed by
\* what_{}, reading the source's members src_what, src_which and src_self
CopyConstructBody(src_what, src_which, src_self, ch) ==
    LET n == visit_via_ref(Types, src_which)
        cc == copy_constructor(src_what, ZeroBuf, Types[n], ch)
    IN  IF src_self
        THEN [what |-> memcpy(ZeroBuf, src_what, BufSize), which |-> src_which,
              self |-> src_self, obj |-> NoObj, threw |-> FALSE,
              events |-> <<"memcpy">>]
        ELSE IF src_which # NullType /\ n # 0
        THEN [what |-> cc.buf, which |-> src_which, self |-> src_self,
              obj |-> IF cc.threw THEN NoObj ELSE LiveObj(Types[n], cc.buf),
              threw |-> cc.threw, events |-> cc.events]
        ELSE [what |-> ZeroBuf, which |-> src_which, self |-> src_self,
              obj |-> NoObj, threw |-> FALSE, events |-> <<>>]

\* tagged_union( tagged_union const &that )
CopyConstruct(i, j, ch) ==
    /\ ~terminated
    /\ UNCHANGED su
    /\ ~alive[i]
    /\ alive[j]
    /\ LET r == CopyConstructBody(what_[j], which_[j], self_[j], ch)
       IN  /\ Taken(ch, r.events, FALSE)
           /\ IF r.threw
              THEN /\ UNCHANGED <<alive, what_, which_, self_, obj>>
                   /\ last' = Report("copy_construct", i, j, which_[j],
                                     "threw", r.events, FALSE, FALSE)
              ELSE /\ alive' = [alive EXCEPT ![i] = TRUE]
                   /\ what_' = [what_ EXCEPT ![i] = r.what]
                   /\ which_' = [which_ EXCEPT ![i] = r.which]
                   /\ self_' = [self_ EXCEPT ![i] = r.self]
                   /\ obj' = [obj EXCEPT ![i] = r.obj]
                   /\ last' = Report("copy_construct", i, j, which_[j], "ok",
                                     r.events, FALSE, FALSE)
    /\ UNCHANGED terminated

\* tagged_union( tagged_union &&that ); w is the value the variant's move
\* constructor leaves in its source
MoveConstruct(i, j, ch) ==
    /\ ~terminated
    /\ UNCHANGED su
    /\ ~alive[i]
    /\ alive[j]
    /\ LET n == visit_via_rref(Types, which_[j])
           mc == move_constructor(what_[j], ZeroBuf, Types[n], ch)
       IN  IF self_[j]
           THEN /\ Taken(ch, <<>>, FALSE)
                /\ alive' = [alive EXCEPT ![i] = TRUE]
                /\ what_' = [what_ EXCEPT
                               ![i] = memcpy(ZeroBuf, what_[j], BufSize)]
                /\ which_' = [which_ EXCEPT ![i] = which_[j]]
                /\ self_' = [self_ EXCEPT ![i] = self_[j]]
                /\ obj' = [obj EXCEPT ![i] = NoObj]
                /\ last' = Report("move_construct", i, j, which_[j], "ok",
                                  <<"memmove">>, FALSE, FALSE)
           ELSE IF which_[j] # NullType /\ n # 0
           THEN \E w \in ValsOf(Types[n]) :
                LET moved == Overwrite(what_[j], w, sizeof(Types[n]))
                IN  /\ Taken(ch, mc.events, FALSE)
                    /\ ch.thr = "ctor" => ch.k = 0
                    /\ IF mc.threw
                       THEN /\ alive' = alive
                            /\ what_' = [what_ EXCEPT ![j] = moved]
                            /\ UNCHANGED <<which_, self_>>
                            /\ obj' = [obj EXCEPT ![j] =
                                 Reassigned(what_[j], obj[j], Types[n], moved)]
                            /\ last' = Report("move_construct", i, j,
                                              which_[j], "threw", mc.events,
                                              FALSE, FALSE)
                       ELSE /\ alive' = [alive EXCEPT ![i] = TRUE]
                            /\ what_' = [what_ EXCEPT ![i] = mc.buf,
                                                      ![j] = moved]
                            /\ which_' = [which_ EXCEPT ![i] = which_[j]]
                            /\ self_' = [self_ EXCEPT ![i] = self_[j]]
                            /\ obj' = [obj EXCEPT
                                 ![i] = LiveObj(Types[n], mc.buf),
                                 ![j] = Reassigned(what_[j], obj[j], Types[n],
                                                   moved)]
                            /\ last' = Report("move_construct", i, j,
                                              which_[j], "ok", mc.events,
                                              FALSE, FALSE)
           ELSE /\ Taken(ch, <<>>, FALSE)
                /\ alive' = [alive EXCEPT ![i] = TRUE]
                /\ what_' = [what_ EXCEPT ![i] = ZeroBuf]
                /\ which_' = [which_ EXCEPT ![i] = which_[j]]
                /\ self_' = [self_ EXCEPT ![i] = self_[j]]
                /\ obj' = [obj EXCEPT ![i] = NoObj]
                /\ last' = Report("move_construct", i, j, which_[j], "ok",
                                  <<>>, FALSE, FALSE)
    /\ UNCHANGED terminated

\* a destructor body that never dispatches
DestructorBodySkips(what, which, self, o, ch) ==
    [obj |-> o, bad |-> FALSE, threw |-> FALSE, events |-> <<>>]

\* the body of ~tagged_union() run on the members what, which, self
DestructorBody(what, which, self, o, ch) ==
    LET n == visit_via_ptr(Types, which)
        d == destroyer(what, o, Types[n], ch)
    IN  IF which # NullType /\ ~self /\ n # 0
        THEN [obj |-> d.obj, bad |-> d.bad, threw |-> d.threw,
              events |-> d.events]
        ELSE [obj |-> o, bad |-> FALSE, threw |-> FALSE, events |-> <<>>]

\* ~tagged_union(), ending the lifetime of the container in slot i
Destroy(i, ch) ==
    /\ ~terminated
    /\ UNCHANGED su
    /\ alive[i]
    /\ LET d == DestructorBody(what_[i], which_[i], self_[i], obj[i], ch)
           result == IF ~d.threw THEN "ok"
                     ELSE IF ch.term THEN "terminated" ELSE "threw"
       IN  /\ Taken(ch, d.events, FALSE)
           /\ last' = Report("destroy", i, 0, which_[i], result, d.events,
                             d.bad, d.obj # NoObj)
           /\ terminated' = (result = "terminated")
    /\ alive' = [alive EXCEPT ![i] = FALSE]
    /\ what_' = [what_ EXCEPT ![i] = ZeroBuf]
    /\ which_' = [which_ EXCEPT ![i] = NullType]
    /\ self_' = [self_ EXCEPT ![i] = FALSE]
    /\ obj' = [obj EXCEPT ![i] = NoObj]

\* ------------------------------------------------------------- assignment
\* the result of an assignment to slot t: the target's members and ghost
\* afterwards and what happened on the way
Outcome(what, which, self, o, path, result, events, bad, leak) ==
    [what |-> what, which |-> which, self |-> self, obj |-> Settle(o, what),
     path |-> path, result |-> result, events |-> events, bad |-> bad,
     leak |-> leak \/ Settle(o, what) # o]

\* case 1 written as destroy and construct anew instead of an assignment
SameTypeAssignByRebuild(t, s, ch) ==
    LET n == visit_via_ref(Types, which_[s])
        d == destroyer(what_[t], obj[t], Types[n], ch)
        cc == copy_constructor(what_[s], what_[t], Types[n], ch)
    IN  Outcome(cc.buf, which_[t], self_[t], LiveObj(Types[n], cc.buf),
                "case1", "ok", d.events \o cc.events, d.bad, FALSE)

\* operator =( tagged_union const & ), case 1: the same declared type on
\* both sides
SameTypeAssign(t, s, ch) ==
    LET n == visit_via_ref(Types, which_[s])
        ca == copy_assigner(what_[s], what_[t], Types[n], ch)
    IN  IF n = 0
        THEN Outcome(what_[t], which_[t], self_[t], obj[t], "case1", "ok",
                     <<>>, FALSE, FALSE)
        ELSE Outcome(ca.buf, which_[t], self_[t],
                     Reassigned(what_[t], obj[t], Types[n], ca.buf), "case1",
                     IF ca.threw THEN "threw" ELSE "ok", ca.events,
                     FALSE, FALSE)

\* case 2 without the two assignments that commit the tag and the self-flag
CrossTypeAssignNoCommit(t, s, ch) ==
    LET old_what == what_[t]
        n == visit_via_ref(Types, which_[s])
        cc == copy_constructor(what_[s], what_[t], Types[n], ch)
        sw1 == memswap(cc.buf, old_what, BufSize)
        m == visit_via_ptr(Types, which_[t])
        d == destroyer(sw1[1], obj[t], Types[m], ch)
        sw2 == memswap(sw1[1], sw1[2], BufSize)
    IN  IF cc.threw
        THEN Outcome(cc.buf, which_[t], self_[t], obj[t], "case2", "threw",
                     cc.events, FALSE, FALSE)
        ELSE Outcome(sw2[1], which_[t], self_[t], LiveObj(Types[n], sw2[1]),
                     "case2", "ok",
                     cc.events \o <<"memswap">> \o d.events \o <<"memswap">>,
                     d.bad, d.obj # NoObj)

\* case 2 without the try block around the destroy: an exception of the
\* old value's destructor leaves the function
CrossTypeAssignPropagating(t, s, ch) ==
    LET old_what == what_[t]
        n == visit_via_ref(Types, which_[s])
        cc == copy_constructor(what_[s], what_[t], Types[n], ch)
        sw1 == memswap(cc.buf, old_what, BufSize)
        m == visit_via_ptr(Types, which_[t])
        d == destroyer(sw1[1], obj[t], Types[m], ch)
        sw2 == memswap(sw1[1], sw1[2], BufSize)
    IN  IF cc.threw
        THEN Outcome(cc.buf, which_[t], self_[t], obj[t], "case2", "threw",
                     cc.events, FALSE, FALSE)
        ELSE IF d.threw
        THEN Outcome(sw1[1], which_[t], self_[t], d.obj, "case2", "threw",
                     cc.events \o <<"memswap">> \o d.events, d.bad, FALSE)
        ELSE Outcome(sw2[1], which_[s], self_[s], LiveObj(Types[n], sw2[1]),
                     "case2", "ok",
                     cc.events \o <<"memswap">> \o d.events
                        \o <<"memswap", "commit">>,
                     d.bad, d.obj # NoObj)

\* operator =( tagged_union const & ), case 2: different declared types
CrossTypeAssign(t, s, ch) ==
    LET old_what == what_[t]
        old_which == which_[t]
        n == visit_via_ref(Types, which_[s])
        cc == copy_constructor(what_[s], what_[t], Types[n], ch)
        sw1 == memswap(cc.buf, old_what, BufSize)
        m == visit_via_ptr(Types, old_which)
        d == destroyer(sw1[1], obj[t], Types[m], ch)
        sw2 == memswap(sw1[1], sw1[2], BufSize)
    IN  IF cc.threw
        THEN Outcome(cc.buf, which_[t], self_[t], obj[t], "case2", "threw",
                     cc.events, FALSE, FALSE)
        ELSE Outcome(sw2[1], which_[s], self_[s], LiveObj(Types[n], sw2[1]),
                     "case2", "ok",
                     cc.events \o <<"memswap">> \o d.events
                        \o <<"memswap", "commit">>,
                     d.bad, d.obj # NoObj)

\* case 3 without the call of the destructor
TrivialSourceAssignNoDestroy(t, s, ch) ==
    Outcome(memcpy(what_[t], what_[s], BufSize), which_[s], self_[s],
            NoObj, "case3", "ok", <<"memcpy", "commit">>, FALSE,
            obj[t] # NoObj)

\* case 3 going on to the memcpy and the two assignments after the
\* destructor has thrown
TrivialSourceAssignCommitsOnThrow(t, s, ch) ==
    LET d == DestructorBody(what_[t], which_[t], self_[t], obj[t], ch)
    IN  IF d.threw
        THEN Outcome(memcpy(what_[t], what_[s], BufSize), which_[s], self_[s],
                     d.obj, "case3",
                     IF ch.term THEN "terminated" ELSE "threw",
                     d.events \o <<"memcpy", "commit">>, d.bad, FALSE)
        ELSE Outcome(memcpy(what_[t], what_[s], BufSize), which_[s], self_[s],
                     NoObj, "case3", "ok", d.events \o <<"memcpy", "commit">>,
                     d.bad, d.obj # NoObj)

\* operator =( tagged_union const & ), case 3: a declared type is replaced
\* by nothing or by a pointer-to-self
TrivialSourceAssign(t, s, ch) ==
    LET d == DestructorBody(what_[t], which_[t], self_[t], obj[t], ch)
    IN  IF d.threw
        THEN Outcome(what_[t], which_[t], self_[t], d.obj, "case3",
                     IF ch.term THEN "terminated" ELSE "threw", d.events,
                     d.bad, FALSE)
        ELSE Outcome(memcpy(what_[t], what_[s], BufSize), which_[s], self_[s],
                     NoObj, "case3", "ok", d.events \o <<"memcpy", "commit">>,
                     d.bad, d.obj # NoObj)

\* case 4 without the handler that restores the saved members
TrivialTargetAssignNoRollback(t, s, ch) ==
    LET src_what == IF s = t /\ ~ch.elide THEN ZeroBuf ELSE what_[s]
        r == CopyConstructBody(src_what, which_[s], self_[s], ch)
    IN  Outcome(r.what, r.which, r.self, r.obj, "case4",
                IF r.threw THEN "threw" ELSE "ok", r.events, FALSE,
                obj[t] # NoObj)

\* case 4 with a handler that restores the buffer and the tag but leaves the
\* self-flag the constructor had set
TrivialTargetAssignKeepsFlag(t, s, ch) ==
    LET old_what == what_[t]
        old_which == which_[t]
        src_what == IF s = t /\ ~ch.elide THEN ZeroBuf ELSE what_[s]
        r == CopyConstructBody(src_what, which_[s], self_[s], ch)
    IN  IF r.threw
        THEN Outcome(memcpy(r.what, old_what, BufSize), old_which, r.self,
                     obj[t], "case4", "threw", r.events \o <<"rollback">>,
                     FALSE, FALSE)
        ELSE Outcome(r.what, r.which, r.self, r.obj, "case4", "ok", r.events,
                     FALSE, obj[t] # NoObj)

\* operator =( tagged_union const & ), case 4: the target holds nothing or a
\* pointer-to-self and is constructed anew in place.  When the source is the
\* target itself, the source's buffer is the one that what_{} has just
\* zeroed, unless the build elides that store.
TrivialTargetAssign(t, s, ch) ==
    LET old_what == what_[t]
        old_which == which_[t]
        old_self == self_[t]
        src_what == IF s = t /\ ~ch.elide THEN ZeroBuf ELSE what_[s]
        r == CopyConstructBody(src_what, which_[s], self_[s], ch)
    IN  IF r.threw
        THEN Outcome(memcpy(r.what, old_what, BufSize), old_which, old_self,
                     obj[t], "case4", "threw", r.events \o <<"rollback">>,
                     FALSE, FALSE)
        ELSE Outcome(r.what, r.which, r.self, r.obj, "case4", "ok", r.events,
                     FALSE, obj[t] # NoObj)

\* tagged_union &  operator =( tagged_union const &that )
CopyAssign(t, s, ch) ==
    IF which_[t] # NullType /\ ~self_[t]
    THEN IF which_[s] # NullType /\ ~self_[s]
         THEN IF which_[t] = which_[s]
              THEN SameTypeAssign(t, s, ch)
              ELSE CrossTypeAssign(t, s, ch)
         ELSE TrivialSourceAssign(t, s, ch)
    ELSE TrivialTargetAssign(t, s, ch)

\* the outcome stored into every living container, as if they shared one
\* buffer
StoreShared(t, r) ==
    /\ what_' = [i \in Objs |-> IF alive[i] THEN r.what ELSE what_[i]]
    /\ which_' = [i \in Objs |-> IF alive[i] THEN r.which ELSE which_[i]]
    /\ self_' = [i \in Objs |-> IF alive[i] THEN r.self ELSE self_[i]]
    /\ obj' = [i \in Objs |-> IF alive[i] THEN r.obj ELSE obj[i]]
    /\ terminated' = (r.result = "terminated")
    /\ UNCHANGED alive

\* the outcome r of an assignment stored into slot t
Store(t, r) ==
    /\ what_' = [what_ EXCEPT ![t] = r.what]
    /\ which_' = [which_ EXCEPT ![t] = r.which]
    /\ self_' = [self_ EXCEPT ![t] = r.self]
    /\ obj' = [obj EXCEPT ![t] = r.obj]
    /\ terminated' = (r.result = "terminated")
    /\ UNCHANGED alive

\* a copy assignment that empties the buffer of its source, as a move might
CopyAssignmentTakingSource(t, s, ch) ==
    /\ ~terminated
    /\ UNCHANGED su
    /\ alive[t]
    /\ alive[s]
    /\ LET r == CopyAssign(t, s, ch)
       IN  /\ Taken(ch, r.events, s = t /\ r.path = "case4")
           /\ what_' = [what_ EXCEPT ![s] = ZeroBuf, ![t] = r.what]
           /\ which_' = [which_ EXCEPT ![t] = r.which]
           /\ self_' = [self_ EXCEPT ![t] = r.self]
           /\ obj' = [obj EXCEPT ![s] = Settle(obj[s], ZeroBuf), ![t] = r.obj]
           /\ terminated' = (r.result = "terminated")
           /\ UNCHANGED alive
           /\ last' = Report("copy_assign", t, s, r.path, r.result, r.events,
                             r.bad, r.leak)

CopyAssignment(t, s, ch) ==
    /\ ~terminated
    /\ UNCHANGED su
    /\ alive[t]
    /\ alive[s]
    /\ LET r == CopyAssign(t, s, ch)
       IN  /\ Taken(ch, r.events, s = t /\ r.path = "case4")
           /\ Store(t, r)
           /\ last' = Report("copy_assign", t, s, r.path, r.result, r.events,
                             r.bad, r.leak)

\* the condition without the comparison of the two tags
MoveGuardAnyType(t, s) ==
    /\ which_[t] # NullType
    /\ which_[s] # NullType
    /\ ~self_[t]

\* the condition without the test of the target's self-flag
MoveGuardNoSelfTest(t, s) ==
    /\ which_[t] # NullType
    /\ which_[s] # NullType
    /\ which_[t] = which_[s]

\* the condition of the if statement in operator =( tagged_union && )
MoveGuard(t, s) ==
    /\ which_[t] # NullType
    /\ which_[s] # NullType
    /\ which_[t] = which_[s]
    /\ ~self_[t]

\* tagged_union &  operator =( tagged_union &&that ); w is the value the
\* variant's move assignment leaves in its source
MoveAssignment(t, s, ch) ==
    /\ ~terminated
    /\ UNCHANGED su
    /\ alive[t]
    /\ alive[s]
    /\ IF MoveGuard(t, s)
       THEN LET n == visit_via_rref(Types, which_[s])
                ma == move_assigner(what_[s], what_[t], Types[n], ch)
            IN  IF n = 0
                THEN /\ Taken(ch, <<>>, FALSE)
                     /\ UNCHANGED <<alive, what_, which_, self_, obj,
                                    terminated>>
                     /\ last' = Report("move_assign", t, s, "fast", "ok",
                                       <<>>, FALSE, FALSE)
                ELSE \E w \in ValsOf(Types[n]) :
                     LET moved == Overwrite(what_[s], w, sizeof(Types[n]))
                         tgt == IF s = t THEN moved ELSE ma.buf
                     IN  /\ Taken(ch, ma.events, FALSE)
                         /\ what_' = [what_ EXCEPT ![s] = moved, ![t] = tgt]
                         /\ obj' = [obj EXCEPT
                              ![s] = Reassigned(what_[s], obj[s], Types[n],
                                                moved),
                              ![t] = Reassigned(what_[t], obj[t], Types[n],
                                                tgt)]
                         /\ UNCHANGED <<alive, which_, self_, terminated>>
                         /\ last' = Report("move_assign", t, s, "fast",
                                           IF ma.threw THEN "threw" ELSE "ok",
                                           ma.events, FALSE, FALSE)
       ELSE LET r == CopyAssign(t, s, ch)
            IN  /\ Taken(ch, r.events, s = t /\ r.path = "case4")
                /\ Store(t, r)
                /\ last' = Report("move_assign", t, s, r.path, r.result,
                                  r.events, r.bad, r.leak)

Next ==
    \/ \E i \in Objs : DefaultConstruct(i)
    \/ \E i \in Objs, T \in {"A", "B"}, mv \in BOOLEAN, ch \in Choices :
          \E v \in ValsOf(T) : ValueConstruct(i, T, v, mv, ch)
    \/ \E i \in Objs, P \in SelfTypes, p \in PtrVals :
          PointerConstruct(i, P, p)
    \/ \E i, j \in Objs, ch \in Choices : CopyConstruct(i, j, ch)
    \/ \E i, j \in Objs, ch \in Choices : MoveConstruct(i, j, ch)
    \/ \E i \in Objs, ch \in Choices : Destroy(i, ch)
    \/ \E t, s \in Objs, ch \in Choices : CopyAssignment(t, s, ch)
    \/ \E t, s \in Objs, ch \in Choices : MoveAssignment(t, s, ch)

Spec == Init /\ [][Next]_vars
\* ----------------------------------------------------------------- access
\* data() without the test of which_
data_untested(which, i) == i

\* data(): the address of the buffer of slot i, 0 (null) when nothing is
\* stored
\* (the accessors take the members they read, so that a property can
\* apply them to the state after a step as well as to the one before)
data(which, i) == IF which[i] # NullType THEN i ELSE 0

\* gett without the comparison of the tag with typeid(T)
gett_unchecked(which, T, i) ==
    IF i # 0 /\ which[i] # NullType
    THEN data(which, i)
    ELSE 0

\* gett<T>( tagged_union * ); a null container pointer is i = 0
gett(which, T, i) ==
    IF i # 0 /\ which[i] # NullType /\ which[i] = T
    THEN data(which, i)
    ELSE 0

\* gett<T>( tagged_union & )
gett_ref(which, T, i) == IF gett(which, T, i) # 0 THEN "ref" ELSE "bad_get"

\* the value a T * returned by gett points at
Pointee(what, T, p) == SubSeq(what[p], 1, sizeof(T))

\* variant_types(): the identities of the declared types, in order
variant_types == Types

\* the for loop of invariant() over the remaining types ts
RECURSIVE invariant_loop(_, _, _)
invariant_loop(ts, which, self) ==
    IF ts = <<>> THEN self
    ELSE IF Head(ts) = which THEN ~self
    ELSE invariant_loop(Tail(ts), which, self)

\* invariant() of the container in slot i
invariant(which, self, i) ==
    IF self[i] /\ which[i] = NullType THEN FALSE
    ELSE IF which[i] = NullType THEN TRUE
    ELSE invariant_loop(variant_types, which[i], self[i])

\* stored_type() and storing_pointer_to_self()
stored_type(which, i) == which[i]

storing_pointer_to_self(self, i) == self[i]

\* data() const, data() volatile, data() const volatile
data_const(which, i) == data(which, i)

data_volatile(which, i) == data(which, i)

\* the const volatile overload without the test of which_
data_const_volatile_untested(which, i) == i

data_const_volatile(which, i) == data(which, i)

\* gett<T>( tagged_union const * )
gett_const(which, T, i) ==
    IF i # 0 /\ which[i] # NullType /\ which[i] = T
    THEN data_const(which, i)
    ELSE 0

\* gett<T>( tagged_union const & )
gett_cref(which, T, i) ==
    IF gett_const(which, T, i) # 0 THEN "ref" ELSE "bad_get"

\* an rvalue overload that never throws
gett_rref_unchecked(which, T, i) == "ref"

\* gett<T>( tagged_union && ): std::move( gett<T>(tu) )
gett_rref(which, T, i) == gett_ref(which, T, i)

\* mpl::type_at_v<Index, Types...>::type; the primary template is left
\* undefined, so a list too short for Index names no type
RECURSIVE type_at_v(_, _)
type_at_v(Index, ts) ==
    IF ts = <<>> THEN Undefined
    ELSE IF Index = 0 THEN Head(ts)
    ELSE type_at_v(Index - 1, Tail(ts))

\* variant_element counting from one
variant_element_from_one(Index, ts) == type_at_v(Index - 1, ts)

\* variant_element<Index, tagged_union<Types...>>::type
variant_element(Index, ts) == type_at_v(Index, ts)

\* variant_size<tagged_union<Types...>>::value
variant_size(ts) == Len(ts)

\* get<Index>( tagged_union * ) and its overloads, each delegating to the
\* gett overload of the same form
get(which, Index, i) == gett(which, variant_element(Index, Types), i)

get_const(which, Index, i) ==
    gett_const(which, variant_element(Index, Types), i)

get_ref(which, Index, i) == gett_ref(which, variant_element(Index, Types), i)

get_cref(which, Index, i) ==
    gett_cref(which, variant_element(Index, Types), i)

get_rref(which, Index, i) ==
    gett_rref(which, variant_element(Index, Types), i)

\* whether a call gett<T>( tu ) on a tagged_union compiles: the templates
\* put no condition on T
gett_well_formed(T, ts) == TRUE

\* whether a call get<Index>( tu ) on a tagged_union compiles: its return
\* type must name a type
get_well_formed(Index, ts) == variant_element(Index, ts) # Undefined

\* -------------------------------------------------------------- observers
\* the forms gett and get come in
AccessForms ==
    {"pointer", "const pointer", "reference", "const reference", "rvalue"}

\* the calls that only look at a container: the observing member functions
\* in each of their overloads, and gett<T> and get<Index> in each form
Observers ==
    [fn : {"stored_type", "storing_pointer_to_self", "invariant"},
     form : {"const"}, arg : {0}]
    \cup [fn : {"data"},
          form : {"plain", "const", "volatile", "const volatile"}, arg : {0}]
    \cup [fn : {"gett"}, form : AccessForms,
          arg : {"A", "B", "int"} \cup SelfTypes]
    \cup [fn : {"get"}, form : AccessForms, arg : 0..(variant_size(Types) - 1)]

\* what a returned pointer shows: null, or the address of the buffer
PointerResult(p) == IF p = 0 THEN "null" ELSE "object"

\* what the observer o returns when called on slot i
Observed(o, i) ==
    CASE o.fn = "stored_type" -> stored_type(which_, i)
      [] o.fn = "storing_pointer_to_self" ->
            IF storing_pointer_to_self(self_, i) THEN "true" ELSE "false"
      [] o.fn = "invariant" ->
            IF invariant(which_, self_, i) THEN "true" ELSE "false"
      [] o.fn = "data" ->
            PointerResult(
               CASE o.form = "plain" -> data(which_, i)
                 [] o.form = "const" -> data_const(which_, i)
                 [] o.form = "volatile" -> data_volatile(which_, i)
                 [] OTHER -> data_const_volatile(which_, i))
      [] o.fn = "gett" ->
            CASE o.form = "pointer" -> PointerResult(gett(which_, o.arg, i))
              [] o.form = "const pointer" ->
                    PointerResult(gett_const(which_, o.arg, i))
              [] o.form = "reference" -> gett_ref(which_, o.arg, i)
              [] o.form = "const reference" -> gett_cref(which_, o.arg, i)
              [] OTHER -> gett_rref(which_, o.arg, i)
      [] OTHER ->
            CASE o.form = "pointer" -> PointerResult(get(which_, o.arg, i))
              [] o.form = "const pointer" ->
                    PointerResult(get_const(which_, o.arg, i))
              [] o.form = "reference" -> get_ref(which_, o.arg, i)
              [] o.form = "const reference" -> get_cref(which_, o.arg, i)
              [] OTHER -> get_rref(which_, o.arg, i)

\* a gett that empties the container before it raises bad_get
ObserveResetting(i, o) ==
    /\ ~terminated
    /\ alive[i]
    /\ o \in Observers
    /\ last' = Report("observe", i, 0, o.fn, Observed(o, i), <<>>, FALSE, FALSE)
    /\ IF Observed(o, i) = "bad_get"
       THEN /\ which_' = [which_ EXCEPT ![i] = NullType]
            /\ self_' = [self_ EXCEPT ![i] = FALSE]
       ELSE UNCHANGED <<which_, self_>>
    /\ UNCHANGED <<alive, what_, obj, terminated, su>>

\* one call of an observer on the container in slot i: it reads the
\* members and assigns to none
Observe(i, o) ==
    /\ ~terminated
    /\ alive[i]
    /\ o \in Observers
    /\ last' = Report("observe", i, 0, o.fn, Observed(o, i), <<>>, FALSE, FALSE)
    /\ UNCHANGED <<alive, what_, which_, self_, obj, terminated, su>>

\* the containers constructed, assigned, destroyed and observed
ObsNext ==
    \/ Next
    \/ \E i \in Objs, o \in Observers : Observe(i, o)

ObsSpec == Init /\ [][ObsNext]_vars

\* ------------------------------------------------------- claim vocabulary
\* slot i is in the state HoldsDeclaredType
Declared(i) == which_[i] # NullType /\ ~self_[i]

\* slot i holds a live value of its tagged declared type
HoldsValue(i) == Declared(i) /\ HoldsLive(what_[i], obj[i], which_[i])

\* the same of the state after a step
HoldsValueAfter(i) ==
    /\ which_'[i] # NullType
    /\ ~self_'[i]
    /\ HoldsLive(what_'[i], obj'[i], which_'[i])

\* how many of the events are in the set
Count(events, set) ==
    Cardinality({n \in 1..Len(events) : events[n] \in set})

\* the position of the first event of the set, 0 when there is none
First(events, set) ==
    IF \E n \in 1..Len(events) : events[n] \in set
    THEN CHOOSE n \in 1..Len(events) :
            /\ events[n] \in set
            /\ \A m \in 1..(n - 1) : events[m] \notin set
    ELSE 0

Ctors == {"ctor", "ctor!"}
Dtors == {"dtor", "dtor!"}
Assigns == {"asg", "asg!", "move_asg", "move_asg!"}

\* C1: every value constructed into a buffer is destroyed exactly once and
\* destroy is never dispatched on a buffer that holds no live value of the
\* dispatched type: no operation leaks a value or destroys a dead one.
C1_LifetimesPaired == ~last.bad /\ ~last.leak

\* C2: cross-type copy assignment whose copy construction throws leaves the
\* target as before: its T value's bytes, its tag T, self-flag false.
C2_CrossTypeThrowRestores ==
    [][(/\ last'.op = "copy_assign"
        /\ last'.path = "case2"
        /\ last'.result = "threw")
       => LET t == last'.tgt
          IN  /\ Pointee(what_', which_[t], t) = Pointee(what_, which_[t], t)
              /\ which_'[t] = which_[t]
              /\ self_'[t] = FALSE]_vars

\* C3: copy assignment onto an empty or self-pointer target whose copy
\* construction throws restores buffer, tag and self-flag of the target.
C3_TrivialTargetThrowRestores ==
    [][(/\ last'.op = "copy_assign"
        /\ last'.path = "case4"
        /\ last'.result = "threw")
       => LET t == last'.tgt
          IN  /\ what_'[t] = what_[t]
              /\ which_'[t] = which_[t]
              /\ self_'[t] = self_[t]]_vars

C3_Witness ==
    /\ last.op = "copy_assign"
    /\ last.path = "case4"
    /\ last.result = "threw"
    /\ self_[last.tgt]

\* C4: a successful cross-type reassignment (by copy or by move) leaves the
\* tag U, self-flag false, a by-type read of U equal to the assigned value,
\* a by-type read of T absent or bad_get, one destroy of the old value, and
\* a container that is not empty.
C4_CrossTypeReassign ==
    [][(/\ last'.op \in {"copy_assign", "move_assign"}
        /\ last'.path = "case2"
        /\ last'.result = "ok")
       => LET t == last'.tgt
              s == last'.src
              T == which_[t]
              U == which_[s]
          IN  /\ which_'[t] = U
              /\ self_'[t] = FALSE
              /\ gett(which_', U, t) = data(which_', t)
              /\ gett(which_', U, t) # 0
              /\ Pointee(what_', U, t) = Pointee(what_, U, s)
              /\ gett(which_', T, t) = 0
              /\ gett_ref(which_', T, t) = "bad_get"
              /\ Count(last'.events, Dtors) = 1
              /\ HoldsValue(t) => ~last'.bad /\ ~last'.leak
              /\ HoldsValueAfter(t)]_vars

C4_Witness ==
    /\ last.op \in {"copy_assign", "move_assign"}
    /\ last.path = "case2"
    /\ last.result = "ok"
    /\ ~last.bad

\* C5: in case 2 the old value's destroy comes after the new
\* value's construction has returned, none is dispatched when that
\* construction throws, and the new value is built in storage apart from
\* the old value's, so that building it cannot touch the old value's bytes.
C5_BuildsApart ==
    [][(/\ last'.op = "copy_assign"
        /\ last'.path = "case2")
       => LET t == last'.tgt
              ev == last'.events
          IN  /\ Count(ev, Dtors) > 0 =>
                    /\ First(ev, {"ctor"}) > 0
                    /\ First(ev, {"ctor"}) < First(ev, Dtors)
              /\ last'.result = "threw" =>
                    /\ Count(ev, Dtors) = 0
                    /\ Pointee(what_', which_[t], t) = Pointee(what_, which_[t], t)]_vars

\* C6: in case 2 an exception of the old value's destructor is swallowed:
\* the assignment returns normally with the source's tag and self-flag
\* committed and the new value in the buffer.
C6_DestructorThrowSwallowed ==
    [][(/\ last'.op = "copy_assign"
        /\ last'.path = "case2"
        /\ Count(last'.events, {"dtor!"}) > 0)
       => LET t == last'.tgt
              s == last'.src
          IN  /\ last'.result = "ok"
              /\ ~terminated'
              /\ which_'[t] = which_[s]
              /\ self_'[t] = self_[s]
              /\ Pointee(what_', which_[s], t) = Pointee(what_, which_[s], s)
              /\ HoldsValueAfter(t)]_vars

C6_Witness ==
    /\ last.op = "copy_assign"
    /\ last.path = "case2"
    /\ Count(last.events, {"dtor!"}) > 0

\* C7: same-type copy assignment calls the type's copy assignment exactly
\* once on the target's value and no constructor or destructor, and leaves
\* tag and self-flag as they were.
C7_SameTypeAssigns ==
    [][(/\ last'.op = "copy_assign"
        /\ last'.path = "case1")
       => LET t == last'.tgt
          IN  /\ Count(last'.events, {"asg", "asg!"}) = 1
              /\ Len(last'.events) = 1
              /\ which_'[t] = which_[t]
              /\ self_'[t] = self_[t]
              /\ obj'[t].type = obj[t].type
              /\ last'.result = "ok" =>
                    Pointee(what_', which_[t], t)
                       = Pointee(what_, which_[t], last'.src)]_vars

C7_Witness ==
    /\ last.op = "copy_assign"
    /\ last.path = "case1"
    /\ last.result = "ok"
    /\ last.tgt # last.src

SameDeclared(t, s) ==
    /\ Declared(t)
    /\ Declared(s)
    /\ which_[t] = which_[s]

\* C9: move assignment takes the fast path exactly when both sides hold a
\* declared value of the same type; there it calls the type's move
\* assignment exactly once, no constructor or destructor, and both sides
\* keep tag T and self-flag false.
C9_MoveFastPath ==
    [][last'.op = "move_assign"
       => LET t == last'.tgt
              s == last'.src
          IN  /\ (last'.path = "fast") <=> SameDeclared(t, s)
              /\ last'.path = "fast" =>
                    /\ Count(last'.events, {"move_asg", "move_asg!"}) = 1
                    /\ Len(last'.events) = 1
                    /\ which_'[t] = which_[t] /\ which_'[s] = which_[t]
                    /\ ~self_'[t] /\ ~self_'[s]
                    /\ last'.result = "ok" /\ s # t =>
                          Pointee(what_', which_[t], t)
                             = Pointee(what_, which_[t], s)]_vars

C9_Witness ==
    /\ last.op = "move_assign"
    /\ last.path = "fast"
    /\ last.result = "ok"
    /\ last.tgt # last.src

\* C10: in every combination of states other than "both hold the same
\* declared type", move assignment does what copy assignment from the same
\* source does, and leaves the source's tag, self-flag and value unchanged.
C10_MoveDegradesToCopy ==
    [][(/\ last'.op = "move_assign"
        /\ ~SameDeclared(last'.tgt, last'.src))
       => LET t == last'.tgt
              s == last'.src
          IN  /\ \E ch \in Choices :
                    LET r == CopyAssign(t, s, ch)
                    IN  /\ what_'[t] = r.what
                        /\ which_'[t] = r.which
                        /\ self_'[t] = r.self
                        /\ last'.result = r.result
              /\ what_'[s] = what_[s]
              /\ which_'[s] = which_[s]
              /\ self_'[s] = self_[s]]_vars

\* C11: in every reachable state, also after an assignment that threw,
\* invariant() is true of every living container: self-flag true implies a
\* present tag; a present tag with self-flag false is a declared type; a
\* present tag with self-flag true is not a declared type.
C11_InvariantHolds ==
    \A i \in Objs :
        alive[i] =>
            /\ invariant(which_, self_, i)
            /\ self_[i] => which_[i] # NullType
            /\ which_[i] # NullType /\ ~self_[i] => contains_v(which_[i], Types)
            /\ which_[i] # NullType /\ self_[i] => ~contains_v(which_[i], Types)

C11_Witness ==
    /\ last.op \in {"copy_assign", "move_assign"}
    /\ last.result = "threw"
    /\ alive[last.tgt]
    /\ self_[last.tgt]
    /\ invariant(which_, self_, last.tgt)

\* C12: in every state between operations, also after one that let an
\* exception out, a present tag with self-flag false means the buffer holds
\* a live value of exactly the tagged type, and an absent tag or a true
\* self-flag means the buffer holds no value awaiting its destructor.
C12_TagMatchesLiveValue ==
    \A i \in Objs :
        alive[i] =>
            /\ Declared(i) => HoldsLive(what_[i], obj[i], which_[i])
            /\ ~Declared(i) => obj[i] = NoObj

\* the operation of a step handed container j over as the source of a move
MovedFrom(j) ==
    /\ last'.op \in {"move_assign", "move_construct"}
    /\ last'.src = j
    /\ last'.path \notin {"case1", "case2", "case3", "case4"}

\* C13: containers share nothing.  A successful copy construction or copy
\* assignment from a value leaves two live values, one in each buffer, and
\* an assignment to or the destruction of one container leaves tag,
\* self-flag, buffer and stored value of every other container as they were
\* (unless the other was handed over to be moved from).
C13_CopiesIndependent ==
    [][/\ (/\ last'.op \in {"copy_construct", "copy_assign"}
           /\ last'.result = "ok"
           /\ last'.tgt # last'.src
           /\ HoldsValue(last'.src)
           /\ Declared(last'.tgt) => HoldsValue(last'.tgt))
          => /\ HoldsValueAfter(last'.tgt)
             /\ HoldsValueAfter(last'.src)
       /\ \A j \in Objs :
             (/\ last'.op \in {"copy_assign", "move_assign", "destroy"}
              /\ j # last'.tgt
              /\ ~MovedFrom(j))
             => /\ alive'[j] = alive[j]
                /\ what_'[j] = what_[j]
                /\ which_'[j] = which_[j]
                /\ self_'[j] = self_[j]
                /\ obj'[j] = obj[j]]_vars

C13_Witness ==
    /\ last.op = "copy_assign"
    /\ last.result = "ok"
    /\ last.tgt # last.src
    /\ HoldsValue(last.tgt)
    /\ HoldsValue(last.src)
    /\ what_[last.tgt] = what_[last.src]

\* C14: constructing a container from a value v of a declared type T, by
\* copy or by move, gives stored_type T, self-flag false and a by-type read
\* of T that returns a value equal to v.
C14_ValueRoundTrip ==
    [][\A i \in Objs, T \in {"A", "B"}, mv \in BOOLEAN, ch \in Choices :
          \A v \in ValsOf(T) :
             (ValueConstruct(i, T, v, mv, ch) /\ ch.thr = "none")
             => /\ alive'[i]
                /\ stored_type(which_', i) = T
                /\ ~storing_pointer_to_self(self_', i)
                /\ gett(which_', T, i) = i
                /\ gett_ref(which_', T, i) = "ref"
                /\ Pointee(what_', T, gett(which_', T, i)) = v]_vars

C14_Witness ==
    /\ last.op = "construct_move_value"
    /\ last.result = "ok"
    /\ stored_type(which_, last.tgt) = "B"
    /\ Pointee(what_, "B", last.tgt) \in ValsOf("B")

\* C15 as claimed: when the variant's constructor throws during
\* construct-from-value, no container results, and the tag had not been set
\* before the value was constructed.
C15_TagAfterValue ==
    [][(/\ last'.op \in {"construct_copy_value", "construct_move_value"}
        /\ last'.result = "threw")
       => /\ ~alive'[last'.tgt]
          /\ First(last'.events, {"commit"}) = 0]_vars

\* C15 as amended: when the variant's constructor throws during
\* construct-from-value, the exception propagates and no container results:
\* the object under construction, whose tag the initialisers had already
\* set, never comes to life, and nothing else changes.
C15_ThrowLeavesNoContainer ==
    [][(/\ last'.op \in {"construct_copy_value", "construct_move_value"}
        /\ last'.result = "threw")
       => /\ ~alive'[last'.tgt]
          /\ which_'[last'.tgt] = NullType
          /\ obj'[last'.tgt] = NoObj
          /\ Count(last'.events, {"ctor!"}) = 1
          /\ First(last'.events, {"commit"}) < First(last'.events, {"ctor!"})
          /\ UNCHANGED <<alive, what_, which_, self_, obj, terminated>>]_vars

C15_Witness ==
    /\ last.op \in {"construct_copy_value", "construct_move_value"}
    /\ last.result = "threw"
    /\ ~alive[last.tgt]

\* types a by-type read may ask for: the declared ones, the pointers to
\* self, and one that is neither
ReadTypes == {"A", "B", "int"} \cup SelfTypes

\* C16: a default-constructed container has no tag and self-flag false;
\* data() is null; a by-type read of any type is null in pointer form and
\* bad_get in reference form.
C16_DefaultIsEmpty ==
    last.op = "default_construct"
    => LET t == last.tgt
       IN  /\ alive[t]
           /\ stored_type(which_, t) = NullType
           /\ ~storing_pointer_to_self(self_, t)
           /\ data(which_, t) = 0
           /\ \A T \in ReadTypes :
                 /\ gett(which_, T, t) = 0
                 /\ gett_ref(which_, T, t) = "bad_get"

C16_Witness ==
    /\ last.op = "default_construct"
    /\ alive[last.tgt]
    /\ data(which_, last.tgt) = 0

\* C17: constructing a container from a pointer p of pointer-to-self type P
\* gives self-flag true, tag P exactly (cv-qualification included) and not
\* a declared type, a by-type read of P that returns a pointer equal to p,
\* and an absent by-type read of every declared type.
C17_SelfPointerRoundTrip ==
    [][\A i \in Objs, P \in SelfTypes, p \in PtrVals :
          PointerConstruct(i, P, p)
          => /\ storing_pointer_to_self(self_', i)
             /\ stored_type(which_', i) = P
             /\ ~contains_v(P, Types)
             /\ gett(which_', P, i) = i
             /\ Pointee(what_', P, gett(which_', P, i)) = PtrBytes(p)
             /\ \A Q \in ReadTypes \ {P} :
                   /\ gett(which_', Q, i) = 0
                   /\ gett_ref(which_', Q, i) = "bad_get"]_vars

C17_Witness ==
    /\ last.op = "construct_pointer"
    /\ stored_type(which_, last.tgt) = "T const volatile *"
    /\ storing_pointer_to_self(self_, last.tgt)
    /\ Pointee(what_, "T const volatile *", last.tgt) = PtrBytes(2)

\* C18: copy construction leaves the source's tag, self-flag and value as
\* they were, and, from an empty source, a source with a value v of a
\* declared type or a source with a pointer-to-self p, gives a container
\* with the source's tag and self-flag and an equal stored value.
C18_CopyConstructEqual ==
    [][last'.op = "copy_construct"
       => LET i == last'.tgt
              j == last'.src
          IN  /\ what_'[j] = what_[j]
              /\ which_'[j] = which_[j]
              /\ self_'[j] = self_[j]
              /\ obj'[j] = obj[j]
              /\ last'.result = "ok" =>
                    /\ alive'[i]
                    /\ which_'[i] = which_[j]
                    /\ self_'[i] = self_[j]
                    /\ which_[j] = NullType => data(which_', i) = 0
                    /\ which_[j] # NullType =>
                          /\ gett(which_', which_[j], i) = i
                          /\ Pointee(what_', which_[j], i)
                                = Pointee(what_, which_[j], j)
                    /\ HoldsValue(j) => HoldsValueAfter(i)
                    /\ ~Declared(j) => obj'[i] = NoObj]_vars

C18_Witness ==
    /\ last.op = "copy_construct"
    /\ last.result = "ok"
    /\ self_[last.tgt]
    /\ what_[last.tgt] = what_[last.src]
    /\ what_[last.tgt] # ZeroBuf

\* C19: move construction from a source with a value v of declared type T
\* gives tag T, self-flag false and a value equal to v, and leaves the
\* source tagged T with self-flag false and a live T for its destructor;
\* from a pointer-to-self or empty source it gives the source's tag,
\* self-flag and pointer.
C19_MoveConstruct ==
    [][(last'.op = "move_construct" /\ last'.result = "ok")
       => LET i == last'.tgt
              j == last'.src
              T == which_[j]
          IN  /\ alive'[i]
              /\ which_'[i] = which_[j]
              /\ self_'[i] = self_[j]
              /\ which_'[j] = which_[j]
              /\ self_'[j] = self_[j]
              /\ Declared(j) =>
                    /\ gett(which_', T, i) = i
                    /\ Pointee(what_', T, i) = Pointee(what_, T, j)
                    /\ Count(last'.events, Ctors) = 1
                    /\ HoldsValue(j) =>
                          /\ HoldsValueAfter(i)
                          /\ HoldsValueAfter(j)
              /\ ~Declared(j) =>
                    /\ what_'[i] = what_[j]
                    /\ what_'[j] = what_[j]
                    /\ obj'[i] = NoObj
                    /\ Count(last'.events, Ctors) = 0]_vars

C19_Witness ==
    /\ last.op = "move_construct"
    /\ last.result = "ok"
    /\ HoldsValue(last.tgt)
    /\ HoldsValue(last.src)
    /\ what_[last.tgt] # what_[last.src]

\* C20: destroying a container dispatches a destroy of the stored value
\* exactly when the tag is present and the self-flag false, and then once,
\* on the tagged type; from an empty container or one with a
\* pointer-to-self nothing is dispatched.
C20_DestroyDispatch ==
    [][last'.op = "destroy"
       => LET t == last'.tgt
              ev == last'.events
          IN  /\ Declared(t) =>
                    /\ Count(ev, Dtors) = 1
                    /\ Len(ev) = 1
                    /\ Types[visit_via_ptr(Types, which_[t])] = which_[t]
                    /\ HoldsValue(t) => ~last'.bad /\ ~last'.leak
              /\ ~Declared(t) => ev = <<>>
              /\ ~alive'[t]]_vars

C20_Witness ==
    /\ last.op = "destroy"
    /\ last.path \in {"A", "B"}
    /\ Count(last.events, Dtors) = 1
    /\ ~last.bad

\* the containers a request can be made of, and the null container pointer
Living == {i \in Objs : alive[i]}

\* C21: in every reachable state data() is null exactly when the tag is
\* absent, is the buffer's address when a declared value or a
\* pointer-to-self is stored, and is the same from all four cv overloads.
C21_DataNullIffEmpty ==
    \A i \in Living :
        /\ data(which_, i) = 0 <=> which_[i] = NullType
        /\ (Declared(i) \/ self_[i]) => data(which_, i) = i
        /\ data_const(which_, i) = data(which_, i)
        /\ data_volatile(which_, i) = data(which_, i)
        /\ data_const_volatile(which_, i) = data(which_, i)

C21_Witness ==
    /\ Living = Objs
    /\ which_[1] = NullType
    /\ data_const_volatile(which_, 1) = 0
    /\ self_[2]
    /\ data_const_volatile(which_, 2) = 2

\* C22: the pointer form of gett never raises; it is null for a null
\* container pointer, an absent tag or a tag other than T, and otherwise
\* the address of the stored value, equal to data().
C22_GettPointer ==
    \A i \in Living \cup {0}, T \in ReadTypes :
        LET absent == i = 0 \/ which_[i] = NullType \/ which_[i] # T
        IN  /\ gett(which_, T, i) \in Objs \cup {0}
            /\ absent => gett(which_, T, i) = 0
            /\ ~absent => gett(which_, T, i) = data(which_, i)
            /\ ~absent => gett(which_, T, i) = i
            /\ gett_const(which_, T, i) = gett(which_, T, i)

C22_Witness ==
    /\ Living = Objs
    /\ which_[1] = "A"
    /\ which_[2] = "B"
    /\ gett(which_, "A", 1) = 1
    /\ gett(which_, "A", 2) = 0

\* C23: the reference forms of gett raise bad_get exactly in the states in
\* which the pointer form is null, and otherwise give a reference to the
\* stored value of a living container.
C23_GettReference ==
    \A i \in Living, T \in ReadTypes :
        /\ gett_ref(which_, T, i) = "bad_get" <=> gett(which_, T, i) = 0
        /\ gett_cref(which_, T, i) = "bad_get" <=> gett_const(which_, T, i) = 0
        /\ gett_rref(which_, T, i) = "bad_get" <=> gett(which_, T, i) = 0
        /\ gett_ref(which_, T, i) # "bad_get" =>
              /\ gett_ref(which_, T, i) = "ref"
              /\ gett_cref(which_, T, i) = "ref"
              /\ gett_rref(which_, T, i) = "ref"
              /\ gett(which_, T, i) = i
              /\ which_[i] = T

C23_Witness ==
    /\ Living = Objs
    /\ which_[1] = "B"
    /\ gett_rref(which_, "B", 1) = "ref"
    /\ gett_rref(which_, "A", 1) = "bad_get"
    /\ which_[2] = NullType
    /\ gett_cref(which_, "B", 2) = "bad_get"

\* C24: for every valid index I, repeats included, get<I> gives what
\* gett<T> gives for T the type at position I, in every state and form.
C24_GetIsGettAtIndex ==
    \A i \in Living \cup {0}, I \in 0..(variant_size(Types) - 1) :
        LET T == Types[I + 1]
        IN  /\ get(which_, I, i) = gett(which_, T, i)
            /\ get_const(which_, I, i) = gett_const(which_, T, i)
            /\ i # 0 =>
                  /\ get_ref(which_, I, i) = gett_ref(which_, T, i)
                  /\ get_cref(which_, I, i) = gett_cref(which_, T, i)
                  /\ get_rref(which_, I, i) = gett_rref(which_, T, i)

C24_Witness ==
    /\ Living = Objs
    /\ which_[1] = "A"
    /\ get(which_, 2, 1) = 1
    /\ get(which_, 1, 1) = 0
    /\ which_[2] = "B"
    /\ get_ref(which_, 1, 2) = "ref"
    /\ get_ref(which_, 0, 2) = "bad_get"

\* C26: for the tracked container a by-name request of a type that is
\* neither declared nor a pointer-to-self type, and a by-index request
\* outside the valid range, do not compile, so that no such request gives
\* a null or bad_get result at run time.
C26_MisuseRejected ==
    \A i \in Living :
        /\ \A T \in ReadTypes :
              (~contains_v(T, Types) /\ T \notin SelfTypes)
              => ~gett_well_formed(T, Types)
        /\ \A I \in variant_size(Types)..(variant_size(Types) + 1) :
              ~get_well_formed(I, Types)

\* C29 as claimed: in case 3, when the destroy of the target's old value
\* throws, the exception reaches the caller before any byte, tag or
\* self-flag of the target is overwritten: the target stays tagged with the
\* old declared type although that value has been destroyed.
C29_CaseThreeThrowPropagates ==
    [][(/\ last'.op = "copy_assign"
        /\ last'.path = "case3"
        /\ Count(last'.events, {"dtor!"}) > 0)
       => LET t == last'.tgt
          IN  /\ last'.result = "threw"
              /\ ~terminated'
              /\ what_'[t] = what_[t]
              /\ which_'[t] = which_[t]
              /\ self_'[t] = self_[t]
              /\ HoldsValue(t) => obj'[t] = NoObj]_vars

\* C29 as amended: in case 3, when the destroy of the target's old value
\* throws, no byte, tag or self-flag of the target is overwritten; the
\* exception either ends the program as it leaves the destructor or reaches
\* the caller, and then the target is still tagged with the old declared
\* type although that value has been destroyed.
C29_CaseThreeThrowKeepsTag ==
    [][(/\ last'.op = "copy_assign"
        /\ last'.path = "case3"
        /\ Count(last'.events, {"dtor!"}) > 0)
       => LET t == last'.tgt
          IN  /\ last'.result \in {"threw", "terminated"}
              /\ terminated' <=> last'.result = "terminated"
              /\ Count(last'.events, {"memcpy", "commit"}) = 0
              /\ what_'[t] = what_[t]
              /\ which_'[t] = which_[t]
              /\ self_'[t] = self_[t]
              /\ HoldsValue(t) => obj'[t] = NoObj]_vars

C29_Witness ==
    /\ last.op = "copy_assign"
    /\ last.path = "case3"
    /\ last.result = "threw"
    /\ ~terminated
    /\ Declared(last.tgt)
    /\ ~HoldsValue(last.tgt)
    /\ ~last.bad

\* C30: a copy assignment in case 4 that succeeds leaves the target with
\* the source's tag and self-flag and a value equal to the source's, and
\* dispatches no destroy on what the target held.
C30_TrivialTargetAssignCopies ==
    [][(/\ last'.op = "copy_assign"
        /\ last'.path = "case4"
        /\ last'.result = "ok")
       => LET t == last'.tgt
              s == last'.src
          IN  /\ which_'[t] = which_[s]
              /\ self_'[t] = self_[s]
              /\ Declared(s) =>
                    Pointee(what_', which_[s], t) = Pointee(what_, which_[s], s)
              /\ self_[s] => what_'[t] = what_[s]
              /\ Count(last'.events, Dtors) = 0]_vars

\* a request by type, and one by index
ByType(T) == [by |-> "type", req |-> T]

ByIndex(I) == [by |-> "index", req |-> I]

\* the request r names a member of a super_union over ts
Valid(r, ts) ==
    IF r.by = "type" THEN contains_v(r.req, ts)
    ELSE r.req \in 0..(Len(ts) - 1)

\* C25: for super_union a by-type access of a type that is not listed and a
\* by-index access at or past the number of types resolve to nothing in any
\* form of access (lvalue, const lvalue, rvalue): they do not compile, and
\* no access that reaches a member is one of them.
C25_SuMisuseRejected ==
    LET ts == su.types
    IN  /\ \A form \in Forms, T \in RequestTypes :
              ~contains_v(T, ts) => Denotes(form, ByType(T), ts) = NoMember
        /\ \A form \in Forms, I \in Len(ts)..(Len(ts) + 1) :
              Denotes(form, ByIndex(I), ts) = NoMember
        /\ su.last.op \in {"read", "write"} =>
              /\ su.last.member # NoMember
              /\ Valid([by |-> su.last.by, req |-> su.last.req], ts)
        /\ su.last.op = "rejected" =>
              /\ su.last.member = NoMember
              /\ ~Valid([by |-> su.last.by, req |-> su.last.req], ts)

C25_Witness ==
    /\ su.types = <<"A", "B">>
    /\ su.last.op = "rejected"
    /\ su.last.form = "rvalue"
    /\ su.last.by = "index"
    /\ su.last.req = 2

\* the position, counted from 0, of the first type of ts equal to T
FirstOf(T, ts) ==
    CHOOSE n \in 0..(Len(ts) - 1) :
        /\ ts[n + 1] = T
        /\ \A m \in 0..(n - 1) : ts[m + 1] # T

NoRepeats(ts) ==
    \A a, b \in 1..Len(ts) : a # b => ts[a] # ts[b]

\* C27: for super_union gett<T> denotes the first member in list order whose
\* type is T and get<I> the member at position I; in a list without repeats
\* get<I> and gett<type at I> denote the same member in every form, and a
\* value written through one access is read back unchanged through any
\* other access to that member.
C27_SuAccessorsAgree ==
    LET ts == su.types
    IN  /\ \A form \in Forms, T \in RequestTypes :
              contains_v(T, ts) =>
                 Denotes(form, ByType(T), ts) = FirstOf(T, ts)
        /\ \A form \in Forms, I \in 0..(Len(ts) - 1) :
              Denotes(form, ByIndex(I), ts) = I
        /\ NoRepeats(ts) =>
              \A f1, f2 \in Forms, I \in 0..(Len(ts) - 1) :
                 Denotes(f1, ByType(ts[I + 1]), ts)
                    = Denotes(f2, ByIndex(I), ts)
        /\ (/\ su.last.op = "read"
            /\ NoRepeats(ts)
            /\ su.active # NoMember
            /\ ts[su.last.member + 1] = ts[su.active + 1])
           => /\ su.last.member = su.active
              /\ su.last.value = su.written

C27_Witness ==
    /\ su.types = <<"A", "B">>
    /\ su.last.op = "read"
    /\ su.last.form = "const"
    /\ su.last.by = "index"
    /\ su.last.member = 1
    /\ su.active = 1
    /\ su.written \in ValsOf("B")
    /\ su.last.value = su.written

\* C28: variant_types() of either container gives the declared types in
\* declaration order with repeats kept, as many as variant_size says, and
\* the empty list for the container of no types.
C28_VariantTypesInOrder ==
    LET ts == su.types
    IN  /\ Len(su_variant_types(ts)) = su_variant_size(ts)
        /\ \A n \in 1..Len(ts) : su_variant_types(ts)[n] = ts[n]
        /\ ts = <<>> => su_variant_types(ts) = <<>>
        /\ su.last.op = "variant_types" => su.last.value = ts
        /\ Len(variant_types) = variant_size(Types)
        /\ \A n \in 1..Len(Types) : variant_types[n] = Types[n]

C28_Witness ==
    /\ su.types = <<"A", "B", "A">>
    /\ su.last.op = "variant_types"
    /\ su.last.value = <<"A", "B", "A">>

\* the tags a dispatch may be handed
Tags == {"A", "B"} \cup SelfTypes

\* C31: visit_via_ref, visit_via_rref and visit_via_ptr, given a tag and a
\* type list, apply the visitor exactly once, at the first listed type equal
\* to the tag, and not at all when no listed type equals the tag; the
\* copy constructor, the move constructor and the destructor so call the
\* variant's own function once or never.
C31_VisitDispatch ==
    /\ \A ts \in SuTypeLists \cup {Types}, type \in Tags :
          \A d \in {<<visit_via_ref_calls(ts, type), visit_via_ref(ts, type)>>,
                    <<visit_via_rref_calls(ts, type), visit_via_rref(ts, type)>>,
                    <<visit_via_ptr_calls(ts, type), visit_via_ptr(ts, type)>>} :
             IF contains_v(type, ts)
             THEN /\ Len(d[1]) = 1
                  /\ ts[d[1][1]] = type
                  /\ \A m \in 1..(d[1][1] - 1) : ts[m] # type
                  /\ d[2] = d[1][1]
             ELSE /\ d[1] = <<>>
                  /\ d[2] = 0
    /\ last.op = "copy_construct" =>
          Count(last.events, Ctors) = Len(visit_via_ref_calls(Types, last.path))
    /\ last.op = "move_construct" =>
          Count(last.events, Ctors) = Len(visit_via_rref_calls(Types, last.path))
    /\ last.op = "destroy" =>
          Count(last.events, Dtors) = Len(visit_via_ptr_calls(Types, last.path))

C31_Witness ==
    /\ last.op = "destroy"
    /\ last.path = "A"
    /\ last.result = "ok"
    /\ last.events = <<"dtor">>
    /\ visit_via_ptr_calls(Types, last.path) = <<1>>

\* C32: copy-assigning a container to itself leaves its tag, its self-flag
\* and its stored value unchanged, whether it is empty, holds a value of a
\* declared type or holds a pointer-to-self; a stored pointer-to-self is
\* still the original pointer afterwards.
C32_SelfAssignUnchanged ==
    [][(/\ last'.op = "copy_assign"
        /\ last'.tgt = last'.src)
       => LET t == last'.tgt
          IN  /\ which_'[t] = which_[t]
              /\ self_'[t] = self_[t]
              /\ self_[t] =>
                    Pointee(what_', "void *", t) = Pointee(what_, "void *", t)
              /\ HoldsValue(t) =>
                    /\ HoldsValueAfter(t)
                    /\ Pointee(what_', which_[t], t)
                          = Pointee(what_, which_[t], t)]_vars

\* C33: a copy assignment from a source other than the target leaves the
\* source as it was, in each of the four cases and on every way out, the
\* ones that end in an exception included: same tag, same self-flag, same
\* stored value, and the value it holds is still alive.
C33_SourceUnchanged ==
    [][(/\ last'.op = "copy_assign"
        /\ last'.tgt # last'.src)
       => LET s == last'.src
          IN  /\ last'.path \in {"case1", "case2", "case3", "case4"}
              /\ what_'[s] = what_[s]
              /\ which_'[s] = which_[s]
              /\ self_'[s] = self_[s]
              /\ obj'[s] = obj[s]
              /\ alive'[s]]_vars

C33_Witness ==
    /\ last.op = "copy_assign"
    /\ last.tgt # last.src
    /\ last.path = "case2"
    /\ last.result = "threw"
    /\ HoldsValue(last.src)
    /\ ~HoldsValue(last.tgt)

\* C34: whenever the condition of the move assignment's fast path holds of
\* two living containers (both tags present and equal, the target's
\* self-flag false), the source's self-flag is false too and both hold a
\* declared type; the variant's move assignment is dispatched on the fast
\* path only, never with an empty side or a pointer-to-self on either side.
C34_MoveGuardExcludesSelf ==
    /\ \A t, s \in Living :
          MoveGuard(t, s) =>
             /\ ~self_[s]
             /\ Declared(t)
             /\ Declared(s)
             /\ contains_v(which_[s], Types)
    /\ (/\ last.op = "move_assign"
        /\ Count(last.events, {"move_asg", "move_asg!"}) > 0)
       => /\ last.path = "fast"
          /\ Declared(last.tgt)
          /\ Declared(last.src)
          /\ which_[last.tgt] = which_[last.src]

C34_Witness ==
    /\ last.op = "move_assign"
    /\ last.path = "fast"
    /\ last.events = <<"move_asg">>
    /\ last.tgt # last.src
    /\ MoveGuard(last.tgt, last.src)
    /\ ~self_[last.src]

\* C35: stored_type(), storing_pointer_to_self(), data(), invariant() and
\* every form of gett and get leave the container they are called on, and
\* every other one, with the same tag, self-flag, buffer and live value,
\* whether they return a result, return null or raise bad_get.
C35_ObserversChangeNothing ==
    [][last'.op = "observe"
       => /\ what_' = what_
          /\ which_' = which_
          /\ self_' = self_
          /\ obj' = obj
          /\ alive' = alive
          /\ last'.result \in {"A", "B", "null", "true", "false", "object",
                                "ref", "bad_get"} \cup SelfTypes]_vars

C35_Witness ==
    /\ last.op = "observe"
    /\ last.path = "gett"
    /\ last.result = "bad_get"
    /\ HoldsValue(last.tgt)

\* the non-empty type lists largest_type is asked about
SizedLists == UNION {[1..n -> {"A", "B", "void *"}] : n \in 1..MaxTypes}

\* the first type of ts that no type of ts exceeds in size
FirstLargest(ts) ==
    ts[CHOOSE n \in 1..Len(ts) :
          /\ \A m \in 1..Len(ts) : sizeof(ts[m]) <= sizeof(ts[n])
          /\ \A m \in 1..(n - 1) : sizeof(ts[m]) < sizeof(ts[n])]

\* C36: largest_type of a non-empty list is the first listed type whose
\* size is the largest of the list, a tie going to the earliest; the buffer
\* of a tagged_union, sized by it, is at least as large as every declared
\* type and as a pointer, so what a container holds fits its buffer.
C36_LargestTypeSizesBuffer ==
    /\ \A ts \in SizedLists \cup {Types \o PointerTypes} :
          largest_type(ts) = FirstLargest(ts)
    /\ \A n \in 1..Len(Types) : sizeof(Types[n]) <= BufSize
    /\ \A n \in 1..Len(PointerTypes) : sizeof(PointerTypes[n]) <= BufSize
    /\ \A P \in SelfTypes : sizeof(P) <= BufSize
    /\ \A i \in Living :
          /\ Len(what_[i]) = BufSize
          /\ which_[i] # NullType => sizeof(which_[i]) <= Len(what_[i])
          /\ obj[i] # NoObj => Len(obj[i].bytes) <= Len(what_[i])

C36_Witness ==
    /\ largest_type(Types \o PointerTypes) = "B"
    /\ \E i, j \in Living :
          /\ HoldsValue(i)
          /\ which_[i] = "B"
          /\ Len(obj[i].bytes) = BufSize
          /\ self_[j]
          /\ sizeof(which_[j]) = BufSize

\* a run in which nothing throws
NoThrow == [thr |-> "none", k |-> 0, term |-> FALSE, elide |-> FALSE]

\* C37: in a cross-type copy assignment the two memswap calls around the
\* destroy cancel out: the destroyer is applied to the target's buffer
\* while it holds exactly the bytes it held before the assignment, and
\* after the second swap the buffer holds exactly the bytes the new value's
\* constructor produced; memswap applied twice to the same two regions
\* restores both.
C37_MemswapsCancel ==
    [][(/\ last'.op \in {"copy_assign", "move_assign"}
        /\ last'.path = "case2"
        /\ Count(last'.events, {"memswap"}) > 0)
       => LET t == last'.tgt
              s == last'.src
              built == copy_constructor(what_[s], what_[t], which_[s],
                                        NoThrow).buf
              sw1 == memswap(built, what_[t], BufSize)
              sw2 == memswap(sw1[1], sw1[2], BufSize)
              seen == {what_[t], what_[s], built, ZeroBuf}
          IN  /\ last'.events \in
                    {<<"ctor", "memswap", "dtor", "memswap", "commit">>,
                     <<"ctor", "memswap", "dtor!", "memswap", "commit">>}
              /\ sw1 = <<what_[t], built>>
              /\ sw2 = <<built, what_[t]>>
              /\ what_'[t] = built
              /\ HoldsValue(t) => ~last'.bad
              /\ \A a, b \in seen, n \in 0..BufSize :
                    LET once == memswap(a, b, n)
                    IN  memswap(once[1], once[2], n) = <<a, b>>]_vars

C37_Witness ==
    /\ last.op = "copy_assign"
    /\ last.path = "case2"
    /\ last.events = <<"ctor", "memswap", "dtor!", "memswap", "commit">>
    /\ ~last.bad
    /\ which_[last.tgt] = "A"
    /\ HoldsValue(last.tgt)
    /\ what_[last.tgt] # what_[last.src]
====
